---- MODULE Spec2Model ----
(***************************************************************************)
(* Model of build.rs: the cargo build script that runs                     *)
(*     git config --unset core.hooksPath                                   *)
(* once per build and panics only when the git process cannot be started.  *)
(*                                                                         *)
(* The program's state is the position of main and the value returned by   *)
(* Command::status().  Its environment is the git executable and the       *)
(* repository's local configuration store, both outside the program; they  *)
(* are modelled after git's documented behaviour for `config --unset`.     *)
(***************************************************************************)
EXTENDS Integers, Sequences, FiniteSets, TLC

VARIABLES
    gitLaunchable,  \* the git executable can be found and started
    inRepo,         \* the working directory is inside a repository
    storeCond,      \* "ok", "locked" (cannot be locked for writing), "corrupt"
    store,          \* local configuration: key -> sequence of the lines set for it
    pc,             \* position of the build script
    result,         \* value of Command::status(): pending, Err, or Ok(exit code)
    stderr,         \* what the build script itself has written to stderr
    builds,         \* number of builds started so far
    spawns,         \* calls of Command::status() in the current build
    pre,            \* the store as it was when the current build started
    removedEarlier  \* an earlier build of this behaviour removed core.hooksPath

vars == <<gitLaunchable, inRepo, storeCond, store, pc, result, stderr,
          builds, spawns, pre, removedEarlier>>

----------------------------------------------------------------------------
(* Bounds *)

MaxBuilds == 2

MaxValues == 2

----------------------------------------------------------------------------
(* The environment: configuration store and git *)

Keys == {"core.hooksPath", "core.bare"}

Values == {".husky", "true"}

RECURSIVE SeqsUpTo(_, _)
SeqsUpTo(S, n) ==
    IF n = 0 THEN {<<>>}
    ELSE LET shorter == SeqsUpTo(S, n - 1)
         IN  shorter \cup {Append(s, v) : s \in shorter, v \in S}

Stores == [Keys -> SeqsUpTo(Values, MaxValues)]

EmptyStore == [k \in Keys |-> <<>>]

StoreConds == {"ok", "locked", "corrupt"}

\* git's exit code for "you try to unset an option which does not exist",
\* also used when several lines match the key
CONFIG_NOTHING_SET == 5

\* `git config --unset <key>` on the local store: the possible
\* (store afterwards, exit code) pairs
GitConfigUnset(key, st, cond) ==
    IF cond = "locked" THEN {[store |-> st, code |-> 255]}
    ELSE IF cond = "corrupt" THEN {[store |-> st, code |-> c] : c \in {3, 128}}
    ELSE IF key \notin DOMAIN st \/ Len(st[key]) # 1
         THEN {[store |-> st, code |-> CONFIG_NOTHING_SET]}
    ELSE {[store |-> [st EXCEPT ![key] = <<>>], code |-> 0]}

\* a started git process given its arguments
GitRun(args, st, cond, repo) ==
    IF Len(args) = 3 /\ args[1] = "config" /\ args[2] = "--unset"
    THEN IF repo THEN GitConfigUnset(args[3], st, cond)
         ELSE {[store |-> st, code |-> 128]}
    ELSE {[store |-> st, code |-> 129]}

----------------------------------------------------------------------------
(* The program *)

Program == "git"

Args_WrongKey == <<"config", "--unset", "core.bare">>

Args == <<"config", "--unset", "core.hooksPath">>

ExpectMessage_NoCommand ==
    <<"core.hooksPath", "failed", "to", "reset.">>

ExpectMessage ==
    <<"core.hooksPath", "failed", "to", "reset.", "You", "should", "manually",
      "run", "git", "config", "--unset", "core.hooksPath">>

Pending == [kind |-> "pending", code |-> 0]

Err == [kind |-> "err", code |-> 0]

Ok(c) == [kind |-> "exit", code |-> c]

Terminal == {"returned", "panicked"}

\* Result::expect with the exit status also required to be a success
Expect_CheckSuccess(res) ==
    IF res.kind = "err" \/ res.code # 0
    THEN [pc |-> "panicked", stderr |-> ExpectMessage]
    ELSE [pc |-> "returned", stderr |-> <<>>]

\* Result::expect wrapped in one more attempt when the first did not succeed
Expect_Retry(res) ==
    IF (res.kind = "err" \/ res.code # 0) /\ spawns < 2
    THEN [pc |-> "main", stderr |-> <<>>]
    ELSE IF res.kind = "err"
    THEN [pc |-> "panicked", stderr |-> ExpectMessage]
    ELSE [pc |-> "returned", stderr |-> <<>>]

\* Result::expect: panic with the message on Err, otherwise the ExitStatus
\* is dropped and main returns
Expect(res) ==
    IF res.kind = "err"
    THEN [pc |-> "panicked", stderr |-> ExpectMessage]
    ELSE [pc |-> "returned", stderr |-> <<>>]

\* the three-way outcome of one unset attempt
Outcome(res) ==
    IF res.kind = "pending" THEN "Pending"
    ELSE IF res.kind = "err" THEN "Failed"
    ELSE IF res.code = 0 THEN "Removed"
    ELSE IF res.code = CONFIG_NOTHING_SET THEN "NotFound"
    ELSE "Failed"

----------------------------------------------------------------------------

TypeOK ==
    /\ gitLaunchable \in BOOLEAN
    /\ inRepo \in BOOLEAN
    /\ storeCond \in StoreConds
    /\ store \in Stores
    /\ pc \in {"idle", "main", "waiting", "expect", "returned", "panicked"}
    /\ result.kind \in {"pending", "err", "exit"}
    /\ builds \in 0..MaxBuilds
    /\ spawns \in Nat
    /\ pre \in Stores
    /\ removedEarlier \in BOOLEAN

Init ==
    /\ gitLaunchable \in BOOLEAN
    /\ inRepo \in BOOLEAN
    /\ storeCond \in StoreConds
    /\ store \in Stores
    /\ ~inRepo => (store = EmptyStore /\ storeCond = "ok")
    /\ pc = "idle"
    /\ result = Pending
    /\ stderr = <<>>
    /\ builds = 0
    /\ spawns = 0
    /\ pre = store
    /\ removedEarlier = FALSE

\* cargo starts the build script: a fresh process enters main
StartBuild ==
    /\ pc \in {"idle"} \cup Terminal
    /\ builds < MaxBuilds
    /\ builds' = builds + 1
    /\ pc' = "main"
    /\ result' = Pending
    /\ stderr' = <<>>
    /\ spawns' = 0
    /\ pre' = store
    /\ removedEarlier' =
          (removedEarlier \/
             (pc \in Terminal /\ pre["core.hooksPath"] # <<>>
                              /\ store["core.hooksPath"] = <<>>))
    /\ UNCHANGED <<gitLaunchable, inRepo, storeCond, store>>

\* Command::status() starts the child and blocks on it
SpawnOk ==
    /\ pc = "main"
    /\ Program = "git" /\ gitLaunchable
    /\ pc' = "waiting"
    /\ spawns' = spawns + 1
    /\ UNCHANGED <<gitLaunchable, inRepo, storeCond, store, result, stderr,
                   builds, pre, removedEarlier>>

\* Command::status() cannot start the child and returns Err
SpawnErr ==
    /\ pc = "main"
    /\ ~(Program = "git" /\ gitLaunchable)
    /\ pc' = "expect"
    /\ result' = Err
    /\ spawns' = spawns + 1
    /\ UNCHANGED <<gitLaunchable, inRepo, storeCond, store, stderr,
                   builds, pre, removedEarlier>>

\* the child runs and exits; Command::status() returns Ok(status)
GitExit ==
    /\ pc = "waiting"
    /\ \E o \in GitRun(Args, store, storeCond, inRepo) :
          /\ store' = o.store
          /\ result' = Ok(o.code)
    /\ pc' = "expect"
    /\ UNCHANGED <<gitLaunchable, inRepo, storeCond, stderr,
                   builds, spawns, pre, removedEarlier>>

\* .expect(...) on the value of status(), then the end of main
ExpectStep ==
    /\ pc = "expect"
    /\ pc' = Expect(result).pc
    /\ stderr' = Expect(result).stderr
    /\ UNCHANGED <<gitLaunchable, inRepo, storeCond, store, result,
                   builds, spawns, pre, removedEarlier>>

Next == StartBuild \/ SpawnOk \/ SpawnErr \/ GitExit \/ ExpectStep

Spec == Init /\ [][Next]_vars

\* main is sequential and blocking: each of its steps is taken once enabled;
\* WF on GitExit is the proviso that the git process exits
FairSpec ==
    /\ Spec
    /\ WF_vars(SpawnOk)
    /\ WF_vars(SpawnErr)
    /\ WF_vars(GitExit)
    /\ WF_vars(ExpectStep)

----------------------------------------------------------------------------
(* Properties *)

AtEnd == pc \in Terminal

RemediationCommand == <<"git", "config", "--unset", "core.hooksPath">>

\* sub occurs in s as a contiguous run of words
Contains(s, sub) ==
    \E i \in 1..(Len(s) - Len(sub) + 1) : SubSeq(s, i, i + Len(sub) - 1) = sub

\* C1 as stated: in every build that starts with core.hooksPath set, with git
\* launchable inside the repository, the key is absent at the end and the step
\* succeeds with outcome Removed and git exit status 0.
C1_RemovalAnyStore ==
    (AtEnd /\ gitLaunchable /\ inRepo /\ pre["core.hooksPath"] # <<>>)
        => /\ store["core.hooksPath"] = <<>>
           /\ pc = "returned"
           /\ Outcome(result) = "Removed"
           /\ result = Ok(0)

\* C1 amended: the same, for a store that git can lock and parse and that
\* holds exactly one line for core.hooksPath.
C1_RemovalCorrectness ==
    (AtEnd /\ gitLaunchable /\ inRepo /\ storeCond = "ok"
           /\ Len(pre["core.hooksPath"]) = 1)
        => /\ store["core.hooksPath"] = <<>>
           /\ pc = "returned"
           /\ Outcome(result) = "Removed"
           /\ result = Ok(0)

C1_Witness ==
    /\ pc = "returned"
    /\ pre["core.hooksPath"] = <<".husky">>
    /\ store["core.hooksPath"] = <<>>
    /\ result = Ok(0)

\* C2: once a build has removed core.hooksPath, the key stays absent and every
\* later build ends as a success with outcome NotFound, never Failed.
C2_Idempotence ==
    removedEarlier
        => /\ store["core.hooksPath"] = <<>>
           /\ AtEnd => (pc = "returned" /\ Outcome(result) = "NotFound")

C2_Witness ==
    /\ removedEarlier
    /\ builds >= 2
    /\ pc = "returned"
    /\ Outcome(result) = "NotFound"

\* C3 as stated: in every build that starts in a repository without a
\* core.hooksPath entry, git exits with its key-not-found code, the step
\* succeeds and the store is unchanged with the key still absent.
C3_AbsentAnyStore ==
    (AtEnd /\ gitLaunchable /\ inRepo /\ pre["core.hooksPath"] = <<>>)
        => /\ pc = "returned"
           /\ result = Ok(5)
           /\ store = pre
           /\ store["core.hooksPath"] = <<>>

\* C3 amended: the same, for a store that git can lock and parse.
C3_AbsenceTolerance ==
    (AtEnd /\ gitLaunchable /\ inRepo /\ storeCond = "ok"
           /\ pre["core.hooksPath"] = <<>>)
        => /\ pc = "returned"
           /\ result = Ok(5)
           /\ store = pre
           /\ store["core.hooksPath"] = <<>>

C3_Witness ==
    /\ pc = "returned"
    /\ pre["core.hooksPath"] = <<>>
    /\ pre["core.bare"] # <<>>
    /\ result = Ok(5)
    /\ store = pre

\* C4: when git cannot be launched the outcome is Failed, the build script
\* panics, its message contains `git config --unset core.hooksPath`, and the
\* store is unchanged.
C4_MissingExecutable ==
    (AtEnd /\ ~gitLaunchable)
        => /\ Outcome(result) = "Failed"
           /\ pc = "panicked"
           /\ Contains(stderr, RemediationCommand)
           /\ store = pre

C4_Witness ==
    /\ pc = "panicked"
    /\ ~gitLaunchable
    /\ result = Err
    /\ store["core.hooksPath"] # <<>>
    /\ Contains(stderr, RemediationCommand)

\* C5: when git is launchable but the working directory is in no repository,
\* the outcome is Failed and the step's reported result differs from a
\* success (it does not return normally, or it emits a message).
C5_NonRepositoryFailure ==
    (AtEnd /\ gitLaunchable /\ ~inRepo)
        => /\ Outcome(result) = "Failed"
           /\ (pc # "returned" \/ stderr # <<>>)

\* C6: at the end of every build, the build step has failed or
\* core.hooksPath is absent from the store.
C6_NoPartialSuccess ==
    AtEnd => (pc = "panicked" \/ store["core.hooksPath"] = <<>>)

\* C7: git is invoked at most once per build, and exactly once in a build
\* that has got past the invocation, whatever the outcome.
C7_NoRetries ==
    /\ spawns <= 1
    /\ pc \in {"waiting", "expect"} \cup Terminal => spawns = 1
    /\ pc \in {"idle", "main"} => spawns = 0

C7_Witness ==
    /\ AtEnd
    /\ spawns = 1
    /\ Outcome(result) = "Failed"
    /\ result.kind = "exit"

\* C8: no step changes the store except by removing core.hooksPath: every
\* other entry keeps its lines, and no entry is created or given a new value.
C8_Frame ==
    [][\A k \in Keys :
          \/ store'[k] = store[k]
          \/ (k = "core.hooksPath" /\ store'[k] = <<>>)]_vars

C8_Witness ==
    /\ AtEnd
    /\ pre["core.hooksPath"] # <<>>
    /\ store["core.hooksPath"] = <<>>
    /\ store["core.bare"] # <<>>
    /\ store["core.bare"] = pre["core.bare"]

C9_Outcomes ==
    /\ Outcome(result) \in {"Pending", "Removed", "NotFound", "Failed"}
    /\ pc \in {"main", "waiting"} => Outcome(result) = "Pending"
    /\ pc \in {"expect"} \cup Terminal =>
          /\ Outcome(result) \in {"Removed", "NotFound", "Failed"}
          /\ result.kind = "err" <=> ~gitLaunchable
          /\ Outcome(result) = "Removed" <=>
                (result.kind = "exit" /\ result.code = 0)
          /\ Outcome(result) = "Removed" <=>
                (pre["core.hooksPath"] # <<>> /\ store["core.hooksPath"] = <<>>)
          /\ Outcome(result) = "NotFound" <=>
                (result.kind = "exit" /\ result.code = 5)
          /\ Outcome(result) # "Removed" => store = pre

\* C9: every build starts Pending and, given that git exits, reaches a
\* terminal outcome among Removed, NotFound and Failed; once the outcome is
\* set it does not change within the build and the build only ends; the
\* outcome follows the exit status (0 Removed, 5 NotFound, otherwise or not
\* launchable Failed) and Removed is exactly the case where the key was
\* taken out of the store.
C9_OutcomeStateMachine ==
    /\ []C9_Outcomes
    /\ [][(result.kind # "pending" /\ builds' = builds)
             => (result' = result /\ pc' \in Terminal)]_vars
    /\ (pc = "main") ~> (AtEnd /\ Outcome(result) # "Pending")

C9_Witness ==
    /\ pc = "panicked"
    /\ builds >= 2
    /\ Outcome(result) = "Failed"

\* C10: whenever git was launched and has exited, with any exit status, main
\* returns normally without the remediation message; main panics, with that
\* message, exactly when launching git failed.
C10_OnlyLaunchFailurePanics ==
    AtEnd =>
        /\ result.kind = "exit" => (pc = "returned" /\ stderr = <<>>)
        /\ pc = "panicked" <=> result.kind = "err"
        /\ pc = "panicked" => Contains(stderr, RemediationCommand)
        /\ gitLaunchable <=> result.kind = "exit"

C10_Witness ==
    /\ pc = "returned"
    /\ result.kind = "exit"
    /\ result.code \notin {0, 5}
    /\ store["core.hooksPath"] # <<>>
    /\ stderr = <<>>

====
